---- MODULE Spec2Model ----
(***************************************************************************)
(* The client-side mood pipeline of MindWell (src/unnamed/part_002):       *)
(* ApiClient (request, retryRequest), MoodCache (set, get, clear) and      *)
(* MoodTracker (logMood, fetchMoodHistory, processHistoryData,             *)
(* createMoodChart, destroy).                                              *)
(*                                                                         *)
(* JavaScript runs the tracker on one thread: an async function runs       *)
(* without interruption from one await to the next.  Every action below is *)
(* one such run-to-suspension segment of one call.  The suspension points  *)
(* are `await fetch(...)` (part_002:40) and the backoff timer              *)
(* `await new Promise(resolve => setTimeout(...))` (part_002:56).          *)
(***************************************************************************)
EXTENDS Integers, Sequences, FiniteSets, TLC

\* ------------------------------------------------------------------------
\* Bounds of the model
\* ------------------------------------------------------------------------

\* Number of logMood / fetchMoodHistory invocations in one behaviour.
NumCalls == 2

\* Number of set/get/clear operations applied in the cache specification.
MaxCacheOps == 4

\* ------------------------------------------------------------------------
\* MOOD_CONFIG and MOOD_MAPPINGS (part_002:5-20)
\* ------------------------------------------------------------------------

RETRY_ATTEMPTS == 3

\* milliseconds
RETRY_DELAY == 1000

\* milliseconds: 5 * 60 * 1000
CACHE_DURATION == 5 * 60 * 1000

\* The own properties of the MOOD_MAPPINGS object literal, label -> value.
MoodLabels == {"Happy", "Good", "Okay", "Worried", "Sad"}

MoodValue(label) ==
    CASE label = "Happy"   -> 5
      [] label = "Good"    -> 4
      [] label = "Okay"    -> 3
      [] label = "Worried" -> 2
      [] label = "Sad"     -> 1

\* MOOD_MAPPINGS is an object literal, so a property read MOOD_MAPPINGS[mood]
\* also finds what Object.prototype provides.  These are property names every
\* object literal inherits; their values are functions (truthy).
ObjectPrototypeKeys == {"constructor", "toString"}

\* Truthiness of MOOD_MAPPINGS[mood] (part_002:321).
MoodMappingsHas(mood) == mood \in MoodLabels \/ mood \in ObjectPrototypeKeys

\* ------------------------------------------------------------------------
\* JavaScript values
\* ------------------------------------------------------------------------

\* null
Null == [null |-> TRUE]

\* ------------------------------------------------------------------------
\* State
\* ------------------------------------------------------------------------
VARIABLES
    now,          \* Date.now(), in milliseconds
    cache,        \* MoodCache.cache: the Map, key -> [data, expiry]
    lastSet,      \* history: key -> the latest set since the last clear
    ret,          \* history: the latest MoodCache.get, [key, val]
    cacheOps,     \* number of cache operations applied directly (bounds)
    isLoading,    \* MoodTracker.isLoading
    chartInstance,\* MoodTracker.chartInstance: Null or the chart's series
    call,         \* the invocations of logMood / fetchMoodHistory
    server,       \* the entries the remote store has accepted, in order
    document,     \* the page: [moodChart: is the mount point there,
                  \*            charts: charts created and not destroyed]
    tz,           \* the local time zone: local time - UTC, in milliseconds
    input,        \* the argument of a function that is applied on its own
    output,       \* what that function returned
    destroyed     \* history: MoodTracker.destroy() has been called

cacheVars == <<cache, lastSet, ret, cacheOps>>

trackerVars == <<isLoading, chartInstance, call, server>>

envVars == <<tz, input, output, destroyed>>

vars == <<now, cache, lastSet, ret, cacheOps,
          isLoading, chartInstance, call, server, document, tz, input, output,
          destroyed>>

\* ------------------------------------------------------------------------
\* MoodCache (part_002:62-87)
\* ------------------------------------------------------------------------

CacheKeys == {"mood_history", "other"}

\* Payloads and time-to-live arguments used when the cache is exercised
\* directly.
Payloads == {[v |-> 1], [v |-> 2]}

Ttls == {0, RETRY_DELAY, CACHE_DURATION}

\* The Map after removing key k.
MapDelete(m, k) == [x \in (DOMAIN m) \ {k} |-> m[x]]

\* The Map after Map.set(k, v).
MapSet(m, k, v) == [x \in (DOMAIN m) \cup {k} |-> IF x = k THEN v ELSE m[x]]

EmptyMap == [x \in {} |-> Null]

\* set(key, data, ttl): expiry = Date.now() + ttl; the entry replaces any
\* existing one.
CacheSet(m, key, data, ttl, t) ==
    MapSet(m, key, [data |-> data, expiry |-> t + ttl])

\* A mutant of CacheExpired: an entry expires at its expiry instant already.
CacheExpiredAtExpiry(m, key, t) == key \in DOMAIN m /\ t >= m[key].expiry

\* Whether get(key) finds an entry whose time has run out (part_002:76).
CacheExpired(m, key, t) == key \in DOMAIN m /\ t > m[key].expiry

\* The value get(key) returns (part_002:72-82).
CacheGetValue(m, key, t) ==
    IF key \notin DOMAIN m THEN Null
    ELSE IF CacheExpired(m, key, t) THEN Null
    ELSE m[key].data

\* A mutant of CacheGetStore: the expired entry is left in the Map.
CacheGetStoreKeeps(m, key, t) == m

\* The Map after get(key): an expired entry is deleted (part_002:77).
CacheGetStore(m, key, t) ==
    IF CacheExpired(m, key, t) THEN MapDelete(m, key) ELSE m

\* clear()
CacheClear(m) == EmptyMap

\* ------------------------------------------------------------------------
\* Arguments of logMood
\* ------------------------------------------------------------------------

\* A JavaScript number with one decimal digit, held in tenths: 55 is 5.5.
Num(tenths) == [numeric |-> TRUE, tenths |-> tenths]

\* A value that parseInt turns into NaN (undefined, "abc", ...).
NotANumber == [numeric |-> FALSE, tenths |-> 0]

\* parseInt(value): the integer part, truncated toward zero; [nan, int].
ParseInt(value) ==
    IF ~value.numeric THEN [nan |-> TRUE, int |-> 0]
    ELSE IF value.tenths >= 0
         THEN [nan |-> FALSE, int |-> value.tenths \div 10]
         ELSE [nan |-> FALSE, int |-> 0 - ((0 - value.tenths) \div 10)]

\* String.prototype.trim on the strings of the model: " Happy" carries a
\* leading blank, no other string of the model has blanks at its ends.
Trim(str) == IF str = " Happy" THEN "Happy" ELSE str

\* validateMoodInput (part_002:311-326); every mood of the model is a string.
validateMoodInput(mood, value) ==
    /\ mood # ""
    /\ LET numValue == ParseInt(value)
       IN  ~(numValue.nan \/ numValue.int < 1 \/ numValue.int > 5)
    /\ MoodMappingsHas(mood)

\* moodData without clientInfo (part_002:114-123).
MoodData(mood, value) == [mood |-> Trim(mood), value |-> ParseInt(value).int]

\* ------------------------------------------------------------------------
\* processHistoryData (part_002:188-218)
\* ------------------------------------------------------------------------

MsPerDay == 24 * 60 * 60 * 1000

\* setHours(0, 0, 0, 0): the local midnight that starts the day of instant t.
Midnight(t) == t - ((t + tz) % MsPerDay)

\* The number of the local calendar day of instant t, counted from
\* 1 January 1970.
LocalDay(t) == (t + tz) \div MsPerDay

WeekdayNames == <<"Sun", "Mon", "Tue", "Wed", "Thu", "Fri", "Sat">>

MonthNames == <<"Jan", "Feb", "Mar", "Apr", "May", "Jun",
                "Jul", "Aug", "Sep", "Oct", "Nov", "Dec">>

\* Month and day of the month of calendar day d of the Gregorian calendar;
\* years are counted from 1 March so that the leap day comes last.
MonthDay(d) ==
    LET z   == d + 719468
        era == z \div 146097
        doe == z - era * 146097
        yoe == (doe - (doe \div 1460) + (doe \div 36524) - (doe \div 146096))
                   \div 365
        doy == doe - (365 * yoe + (yoe \div 4) - (yoe \div 100))
        mp  == (5 * doy + 2) \div 153
    IN  [month |-> IF mp < 10 THEN mp + 3 ELSE mp - 9,
         day   |-> doy - ((153 * mp + 2) \div 5) + 1]

\* toLocaleDateString('en-US', {weekday: 'short', month: 'short',
\* day: 'numeric'}) of calendar day d: "Thu, Jan 1" as <<"Thu", "Jan", 1>>
\* (1 January 1970 was a Thursday).
DayLabel(d) ==
    <<WeekdayNames[((d + 4) % 7) + 1], MonthNames[MonthDay(d).month],
      MonthDay(d).day>>

\* The calendar days an instant of the model can fall on: a 32-bit count of
\* milliseconds reaches 24 days to either side of 1 January 1970.
CalendarDays == (0 - 32)..32

\* The labels of those days, worked out once.
DayLabels == [d \in CalendarDays |-> DayLabel(d)]

\* The label of the day of instant t.
DateLabel(t) == DayLabels[LocalDay(t)]

\* A mutant of FirstOfDay: the last record of the day.
LastOfDay(history, day) ==
    LET hits == {n \in 1..Len(history) : Midnight(history[n].date) = day}
    IN  IF hits = {} THEN Null
        ELSE history[CHOOSE n \in hits : \A m \in hits : n >= m]

\* history.find(...): the first record, in input order, of the day, or Null.
FirstOfDay(history, day) ==
    LET hits == {n \in 1..Len(history) : Midnight(history[n].date) = day}
    IN  IF hits = {} THEN Null
        ELSE history[CHOOSE n \in hits : \A m \in hits : n <= m]

\* The day of slot n (1..7): today - 6 days .. today.
SlotDay(n, t) == Midnight(t) - (7 - n) * MsPerDay

\* A mutant of processHistoryData: the history is reversed in place (as by
\* history.reverse()) before it is returned as rawHistory.
ProcessHistoryDataReversing(history, t) ==
    [labels     |-> [n \in 1..7 |-> DateLabel(SlotDay(n, t))],
     dataPoints |-> [n \in 1..7 |->
                        LET entry == FirstOfDay(history, SlotDay(n, t))
                        IN  IF entry = Null THEN Null ELSE [val |-> entry.value]],
     rawHistory |-> [n \in 1..Len(history) |-> history[Len(history) + 1 - n]]]

processHistoryData(history, t) ==
    [labels     |-> [n \in 1..7 |-> DateLabel(SlotDay(n, t))],
     dataPoints |-> [n \in 1..7 |->
                        LET entry == FirstOfDay(history, SlotDay(n, t))
                        IN  IF entry = Null THEN Null ELSE [val |-> entry.value]],
     rawHistory |-> history]

\* new Chart(ctx, config) (part_002:230-307): the chart object, as the series
\* it shows.
NewChart(labels, dataPoints) == [labels |-> labels, data |-> dataPoints]

\* The live charts after chartInstance.destroy(), if there is an instance
\* (part_002:226-228).
DestroyPrevious(charts) == IF chartInstance # Null THEN charts - 1 ELSE charts

\* A mutant of createMoodChart: the previous chart is not destroyed.
CreateMoodChartLeaks(labels, dataPoints) ==
    IF ~document.moodChart
    THEN UNCHANGED <<chartInstance, document>>
    ELSE /\ chartInstance' = NewChart(labels, dataPoints)
         /\ document' = [document EXCEPT !.charts = @ + 1]

\* createMoodChart (part_002:221-308): nothing happens without the mount
\* point; with it the previous chart is destroyed and a new one created.
createMoodChart(labels, dataPoints) ==
    IF ~document.moodChart
    THEN UNCHANGED <<chartInstance, document>>
    ELSE /\ chartInstance' = NewChart(labels, dataPoints)
         /\ document' = [document EXCEPT !.charts = DestroyPrevious(@) + 1]

\* ------------------------------------------------------------------------
\* Error messages and notifications (part_002:360-394)
\* ------------------------------------------------------------------------

\* A message is a sequence of words.  The markers handleMoodLogError looks
\* for:
Markers == {"network", "fetch", "401", "unauthorized", "429"}

\* Whether a word has the marker as a substring.  String.prototype.includes
\* compares case-sensitively: "Network" and "Unauthorized" contain no marker,
\* "prefetch" contains "fetch", "14290" contains "429".
WordIncludes(word, marker) ==
    \/ word = marker
    \/ word = "prefetch" /\ marker = "fetch"
    \/ word = "14290" /\ marker = "429"

\* error.message.includes(marker)
Includes(message, marker) ==
    \E n \in 1..Len(message) : WordIncludes(message[n], marker)

\* A mutant of ErrorCategory: the 401 test comes before the network test.
ErrorCategoryAuthFirst(message) ==
    IF Includes(message, "401") \/ Includes(message, "unauthorized")
    THEN "Please log in again."
    ELSE IF Includes(message, "network") \/ Includes(message, "fetch")
    THEN "Please check your internet connection."
    ELSE IF Includes(message, "429")
    THEN "Too many requests. Please wait a moment."
    ELSE "Please try again later."

\* The if / else-if chain of handleMoodLogError (part_002:365-373).
ErrorCategory(message) ==
    IF Includes(message, "network") \/ Includes(message, "fetch")
    THEN "Please check your internet connection."
    ELSE IF Includes(message, "401") \/ Includes(message, "unauthorized")
    THEN "Please log in again."
    ELSE IF Includes(message, "429")
    THEN "Too many requests. Please wait a moment."
    ELSE "Please try again later."

\* showErrorNotification(text) / showSuccessNotification(text): what is
\* handed to showNotification (part_002:379-394).  A text is a sequence of
\* the parts it was concatenated from.
ErrorNotification(text) == [type |-> "error", text |-> text]

SuccessNotification(text) == [type |-> "success", text |-> text]

\* handleMoodLogError(error, mood, value): the notifications it emits.
handleMoodLogError(message) ==
    <<ErrorNotification(<<"Failed to log mood. ", ErrorCategory(message)>>)>>

\* The notification in the catch block of fetchMoodHistory (part_002:179).
HistoryErrorNotification ==
    ErrorNotification(<<"Unable to load mood history. Please try again later.">>)

\* The message of the Error a failed request throws: fetch rejects with
\* "Failed to fetch", a response that is not ok and has no message in its
\* body gives `HTTP ${status}: ${statusText}` (part_002:44).
ErrorMessage(kind) ==
    CASE kind = "network" -> <<"Failed", "to", "fetch">>
      [] kind = "http401" -> <<"HTTP", "401", "Unauthorized">>
      [] kind = "http500" -> <<"HTTP", "500", "Internal", "Server", "Error">>

\* ------------------------------------------------------------------------
\* Invocations and the HTTP exchange
\* ------------------------------------------------------------------------

Calls == 1..NumCalls

\* How a request can fail: fetch rejects (no connection), or the response is
\* not ok (part_002:42-45) with a 4xx or a 5xx status.
Failures == {"network", "http401", "http500"}

Pending == [status |-> "pending", body |-> <<>>]

\* An invocation that has not been made yet.
NoCall ==
    [kind   |-> "none",     \* "logMood" or "fetchMoodHistory" once made
     pc     |-> "idle",     \* idle, post, postWait, get, getWait, done
     mood   |-> "",         \* logMood's arguments
     value  |-> NotANumber,
     stamp  |-> 0,          \* moodData.timestamp
     force  |-> FALSE,      \* fetchMoodHistory's forceRefresh
     i      |-> 0,          \* retryRequest's loop variable
     reqs   |-> 0,          \* history: requests of the current retryRequest
     waits  |-> <<>>,       \* history: its setTimeout delays, in order
     resp   |-> Pending,    \* the response to the request in flight
     result |-> "none",     \* none, ok or threw
     error  |-> "none",     \* what was thrown
     saved  |-> <<>>,       \* logMood's `result`, as a one-element sequence
     out    |-> <<>>,       \* what was returned, as a one-element sequence
     notes  |-> <<>>,       \* the notifications it has emitted, in order
     ui     |-> FALSE,      \* updateMoodUI has marked the mood as selected
     events |-> <<>>]       \* history: what the invocation did, in order

\* Invocations are made in the order of their numbers.
CanStart(c) ==
    /\ call[c].pc = "idle"
    /\ \A d \in Calls : d < c => call[d].pc # "idle"

\* retryRequest entered (i = 0) and its first request issued (part_002:50-53).
StartRetry(rec, stage) ==
    [rec EXCEPT !.pc = stage, !.i = 0, !.reqs = 1, !.waits = <<>>,
                !.resp = Pending]

\* `throw` out of the invocation.
Throw(rec, err) ==
    [rec EXCEPT !.pc = "done", !.result = "threw", !.error = err,
                !.resp = Pending]

\* `return` out of the invocation.
Return(rec, val) ==
    [rec EXCEPT !.pc = "done", !.result = "ok", !.out = <<val>>,
                !.resp = Pending]

\* The invocation emits notifications.
Notify(rec, notifications) == [rec EXCEPT !.notes = @ \o notifications]

\* A mutant of GuardBlocks: no guard.
GuardBlocksNever(loading) == FALSE

\* The guard of logMood (part_002:106): a submission is already under way.
GuardBlocks(loading) == loading

\* A mutant of RetryDelay: the same delay before every retry.
RetryDelayConstant(i) == RETRY_DELAY

\* The delay before attempt i + 2 (part_002:56).
RetryDelay(i) == RETRY_DELAY * (i + 1)

\* A mutant of LastAttempt: gives up one attempt early.
LastAttemptEarly(i) == i = RETRY_ATTEMPTS - 2

\* Whether attempt i was the last one allowed (part_002:55).
LastAttempt(i) == i = RETRY_ATTEMPTS - 1

\* A tracker as its constructor leaves it (part_002:91-96), with no call
\* made and an empty store.
TrackerInit ==
    /\ now = 0
    /\ cache = EmptyMap
    /\ lastSet = EmptyMap
    /\ ret = [key |-> "", val |-> Null]
    /\ cacheOps = 0
    /\ isLoading = FALSE
    /\ chartInstance = Null
    /\ call = [c \in Calls |-> NoCall]
    /\ server = <<>>
    /\ destroyed = FALSE

Init ==
    /\ TrackerInit
    /\ document = [moodChart |-> TRUE, charts |-> 0]
    /\ tz = 0
    /\ input = Null
    /\ output = Null

\* ------------------------------------------------------------------------
\* MoodTracker.logMood and MoodTracker.fetchMoodHistory, segment by segment
\* ------------------------------------------------------------------------

HistoryKey == "mood_history"

\* A mutant of LogMoodReturn: logMood returns what fetchMoodHistory returned.
LogMoodReturnsChart(rec, chartData) == Return(rec, chartData)

\* What logMood does when its fetchMoodHistory has returned (part_002:142-144
\* and the finally block): notify success, return `result`.
LogMoodReturn(rec, chartData) ==
    Return(Notify(rec, <<SuccessNotification(<<"Mood logged successfully: ",
                                               rec.mood>>)>>),
           rec.saved[1])

\* What a direct fetchMoodHistory returns (part_002:163, 175).
FetchReturn(rec, chartData) == Return(rec, chartData)

\* A mutant of FetchEntry: forceRefresh is ignored and the cache is always
\* consulted.
FetchEntryIgnoresForce(c, rec, force, store) ==
    LET cachedData == CacheGetValue(store, HistoryKey, now)
    IN  IF cachedData # Null
        THEN /\ ret' = [key |-> HistoryKey, val |-> cachedData]
             /\ cache' = store
             /\ createMoodChart(cachedData.labels, cachedData.dataPoints)
             /\ call' = [call EXCEPT ![c] =
                    IF rec.kind = "logMood" THEN LogMoodReturn(rec, cachedData)
                    ELSE FetchReturn(rec, cachedData)]
        ELSE /\ ret' = [key |-> HistoryKey, val |-> cachedData]
             /\ cache' = CacheGetStore(store, HistoryKey, now)
             /\ UNCHANGED <<chartInstance, document>>
             /\ call' = [call EXCEPT ![c] =
                    StartRetry([rec EXCEPT !.events = Append(@, "get")], "get")]

\* fetchMoodHistory from its entry to its first suspension or its return
\* (part_002:156-168), run by invocation c whose record is rec; `store` is
\* the cache it finds.  When it returns at once, a logMood that awaited it
\* goes on to its own return.
FetchEntry(c, rec, force, store) ==
    LET cachedData == CacheGetValue(store, HistoryKey, now)
    IN  IF ~force /\ cachedData # Null
        THEN /\ ret' = [key |-> HistoryKey, val |-> cachedData]
             /\ cache' = store
             /\ createMoodChart(cachedData.labels, cachedData.dataPoints)
             /\ call' = [call EXCEPT ![c] =
                    IF rec.kind = "logMood" THEN LogMoodReturn(rec, cachedData)
                    ELSE FetchReturn(rec, cachedData)]
        ELSE /\ ret' = IF force THEN ret
                       ELSE [key |-> HistoryKey, val |-> cachedData]
             /\ cache' = IF force THEN store
                         ELSE CacheGetStore(store, HistoryKey, now)
             /\ UNCHANGED <<chartInstance, document>>
             /\ call' = [call EXCEPT ![c] =
                    StartRetry([rec EXCEPT !.events = Append(@, "get")], "get")]

\* A mutant of LogMood: the guard's throw sits inside the try block, so the
\* finally block resets isLoading when the guard rejects.
LogMoodGuardInTry(c, mood, value) ==
    /\ CanStart(c)
    /\ LET rec == [call[c] EXCEPT !.kind = "logMood", !.mood = mood,
                                  !.value = value, !.stamp = now]
       IN  IF ~validateMoodInput(mood, value)
           THEN /\ call' = [call EXCEPT ![c] = Throw(rec, "validation")]
                /\ UNCHANGED isLoading
           ELSE IF GuardBlocks(isLoading)
           THEN /\ call' = [call EXCEPT ![c] = Throw(rec, "guard")]
                /\ isLoading' = FALSE
           ELSE /\ isLoading' = TRUE
                /\ call' = [call EXCEPT ![c] = StartRetry(rec, "post")]
    /\ UNCHANGED <<now, cacheVars, chartInstance, server, document, envVars>>

\* A mutant of LogMood: updateMoodUI runs before the POST is sent.
LogMoodUpdatesUiFirst(c, mood, value) ==
    /\ CanStart(c)
    /\ LET rec == [call[c] EXCEPT !.kind = "logMood", !.mood = mood,
                                  !.value = value, !.stamp = now]
       IN  IF ~validateMoodInput(mood, value)
           THEN /\ call' = [call EXCEPT ![c] = Throw(rec, "validation")]
                /\ UNCHANGED isLoading
           ELSE IF GuardBlocks(isLoading)
           THEN /\ call' = [call EXCEPT ![c] = Throw(rec, "guard")]
                /\ UNCHANGED isLoading
           ELSE /\ isLoading' = TRUE
                /\ call' = [call EXCEPT ![c] =
                       StartRetry([rec EXCEPT !.ui = TRUE], "post")]
    /\ UNCHANGED <<now, cacheVars, chartInstance, server, document, envVars>>

\* logMood(mood, value) from its entry to its first suspension
\* (part_002:99-131, down to `await fetch` in request).
LogMood(c, mood, value) ==
    /\ CanStart(c)
    /\ LET rec == [call[c] EXCEPT !.kind = "logMood", !.mood = mood,
                                  !.value = value, !.stamp = now]
       IN  IF ~validateMoodInput(mood, value)
           THEN /\ call' = [call EXCEPT ![c] = Throw(rec, "validation")]
                /\ UNCHANGED isLoading
           ELSE IF GuardBlocks(isLoading)
           THEN /\ call' = [call EXCEPT ![c] = Throw(rec, "guard")]
                /\ UNCHANGED isLoading
           ELSE /\ isLoading' = TRUE
                /\ call' = [call EXCEPT ![c] = StartRetry(rec, "post")]
    /\ UNCHANGED <<now, cacheVars, chartInstance, server, document, envVars>>

\* fetchMoodHistory(forceRefresh) called directly, to its first suspension.
FetchMoodHistory(c, force) ==
    /\ CanStart(c)
    /\ FetchEntry(c, [call[c] EXCEPT !.kind = "fetchMoodHistory",
                                     !.force = force],
                  force, cache)
    /\ UNCHANGED <<now, lastSet, cacheOps, isLoading, server, envVars>>

\* The remote store answers the request of invocation c with success: it
\* stores the entry of a POST and answers with it, or answers a GET with the
\* history it holds at that moment.  The response is then on its way.
ServerRespond(c) ==
    /\ call[c].pc \in {"post", "get"}
    /\ call[c].resp.status = "pending"
    /\ LET entry == [date  |-> call[c].stamp,
                     mood  |-> MoodData(call[c].mood, call[c].value).mood,
                     value |-> MoodData(call[c].mood, call[c].value).value,
                     by    |-> c]    \* history: the invocation it came from
       IN  IF call[c].pc = "post"
           THEN /\ server' = Append(server, entry)
                /\ call' = [call EXCEPT ![c].resp =
                                [status |-> "ok", body |-> <<entry>>]]
           ELSE /\ server' = server
                /\ call' = [call EXCEPT ![c].resp =
                                [status |-> "ok", body |-> server]]
    /\ UNCHANGED <<now, cacheVars, isLoading, chartInstance, document, envVars>>

\* part_002:133-140: the POST has succeeded; updateMoodUI runs, the cache is
\* cleared and fetchMoodHistory() runs to its first suspension.
AfterSubmit(c) ==
    /\ lastSet' = EmptyMap
    /\ FetchEntry(c, [call[c] EXCEPT !.saved = <<call[c].resp.body[1]>>,
                                     !.ui = TRUE,
                                     !.events = @ \o <<"post_ok", "clear">>],
                  FALSE, CacheClear(cache))
    /\ isLoading' = IF call'[c].pc = "done" THEN FALSE ELSE isLoading
    /\ UNCHANGED <<now, cacheOps, server, envVars>>

\* A mutant of AfterHistory: a series is cached only when none is cached
\* yet, so the first response to be processed stays in the cache.
AfterHistoryFirstWins(c) ==
    LET chartData == processHistoryData(call[c].resp.body, now)
        fresh     == HistoryKey \notin DOMAIN cache
    IN  /\ cache' = IF fresh
                     THEN CacheSet(cache, HistoryKey, chartData, CACHE_DURATION, now)
                     ELSE cache
        /\ lastSet' = IF fresh
                       THEN MapSet(lastSet, HistoryKey,
                              [data |-> chartData, at |-> now, ttl |-> CACHE_DURATION])
                       ELSE lastSet
        /\ createMoodChart(chartData.labels, chartData.dataPoints)
        /\ IF call[c].kind = "logMood"
           THEN /\ call' = [call EXCEPT ![c] = LogMoodReturn(call[c], chartData)]
                /\ isLoading' = FALSE
           ELSE /\ call' = [call EXCEPT ![c] = FetchReturn(call[c], chartData)]
                /\ isLoading' = isLoading
        /\ UNCHANGED <<now, ret, cacheOps, server, envVars>>

\* part_002:169-175: the history has arrived; it is processed, cached and
\* rendered; a logMood that awaited it then returns (part_002:142-152).
AfterHistory(c) ==
    LET chartData == processHistoryData(call[c].resp.body, now)
    IN  /\ cache' = CacheSet(cache, HistoryKey, chartData, CACHE_DURATION, now)
        /\ lastSet' = MapSet(lastSet, HistoryKey,
                        [data |-> chartData, at |-> now, ttl |-> CACHE_DURATION])
        /\ createMoodChart(chartData.labels, chartData.dataPoints)
        /\ IF call[c].kind = "logMood"
           THEN /\ call' = [call EXCEPT ![c] = LogMoodReturn(call[c], chartData)]
                /\ isLoading' = FALSE
           ELSE /\ call' = [call EXCEPT ![c] = FetchReturn(call[c], chartData)]
                /\ isLoading' = isLoading
        /\ UNCHANGED <<now, ret, cacheOps, server, envVars>>

\* part_002:54-56: a failed attempt that is not the last; the timer is set.
Backoff(c) ==
    /\ call' = [call EXCEPT ![c] =
           [@ EXCEPT !.pc = IF @ = "post" THEN "postWait" ELSE "getWait",
                     !.waits = Append(@, RetryDelay(call[c].i))]]
    /\ UNCHANGED <<now, cacheVars, isLoading, chartInstance, server, document, envVars>>

\* A mutant of SubmitFailed: the cache is cleared on the failure path too.
SubmitFailedClears(c, kind) ==
    /\ call' = [call EXCEPT ![c] =
           Throw([call[c] EXCEPT !.events = Append(@, "clear")], kind)]
    /\ cache' = CacheClear(cache)
    /\ lastSet' = EmptyMap
    /\ isLoading' = FALSE
    /\ UNCHANGED <<now, ret, cacheOps, chartInstance, server, document, envVars>>

\* part_002:146-152: the submission failed for good; logMood notifies,
\* rethrows and, in its finally block, resets isLoading.
SubmitFailed(c, kind) ==
    /\ call' = [call EXCEPT ![c] =
           Throw(Notify(call[c], handleMoodLogError(ErrorMessage(kind))), kind)]
    /\ isLoading' = FALSE
    /\ UNCHANGED <<now, cacheVars, chartInstance, server, document, envVars>>

\* A mutant of HistoryFailed: logMood without its finally block.
HistoryFailedNoFinally(c, kind) ==
    /\ createMoodChart(<<>>, <<>>)
    /\ call' = [call EXCEPT ![c] = Throw(call[c], kind)]
    /\ isLoading' = isLoading
    /\ UNCHANGED <<now, cacheVars, server, envVars>>

\* A mutant of HistoryFailed: the catch block renders the empty chart but
\* does not rethrow, so the call returns undefined.
HistoryFailedSwallows(c, kind) ==
    /\ createMoodChart(<<>>, <<>>)
    /\ call' = [call EXCEPT ![c] = Return(call[c], Null)]
    /\ isLoading' = IF call[c].kind = "logMood" THEN FALSE ELSE isLoading
    /\ UNCHANGED <<now, cacheVars, server, envVars>>

\* part_002:177-184: the history fetch failed for good; an empty chart is
\* rendered and the error rethrown, through logMood's catch and finally
\* blocks when logMood awaited it.
HistoryFailed(c, kind) ==
    /\ createMoodChart(<<>>, <<>>)
    /\ call' = [call EXCEPT ![c] =
           Throw(Notify(call[c],
                        <<HistoryErrorNotification>> \o
                        (IF call[c].kind = "logMood"
                         THEN handleMoodLogError(ErrorMessage(kind))
                         ELSE <<>>)),
                 kind)]
    /\ isLoading' = IF call[c].kind = "logMood" THEN FALSE ELSE isLoading
    /\ UNCHANGED <<now, cacheVars, server, envVars>>

\* `await fetch(...)` resolves in invocation c with a response that is ok;
\* the invocation runs on to its next suspension or to its end.  (Reading the
\* body, part_002:47, touches no state of the tracker and is part of this
\* segment.)
Deliver(c) ==
    /\ call[c].pc \in {"post", "get"}
    /\ call[c].resp.status = "ok"
    /\ IF call[c].pc = "post" THEN AfterSubmit(c) ELSE AfterHistory(c)

\* The request of invocation c fails: fetch rejects, or the response is not
\* ok and request throws (part_002:42-45).  The store has accepted nothing.
\* retryRequest catches the error (part_002:54-56).
RequestFails(c, kind) ==
    /\ call[c].pc \in {"post", "get"}
    /\ call[c].resp.status = "pending"
    /\ IF ~LastAttempt(call[c].i) THEN Backoff(c)
       ELSE IF call[c].pc = "post" THEN SubmitFailed(c, kind)
       ELSE HistoryFailed(c, kind)

Waiting(c) == call[c].pc \in {"postWait", "getWait"}

\* The backoff timer of invocation c fires: the loop of retryRequest goes
\* round and issues the next request (part_002:51-53).  The delay the timer
\* was set with is recorded in `waits`; when the runtime fires it is up to
\* the runtime.
TimerFire(c) ==
    /\ Waiting(c)
    /\ call' = [call EXCEPT ![c] =
           [@ EXCEPT !.pc = IF @ = "postWait" THEN "post" ELSE "get",
                     !.i = @ + 1,
                     !.reqs = @ + 1,
                     !.resp = Pending,
                     !.events = IF call[c].pc = "getWait"
                                THEN Append(@, "get") ELSE @]]
    /\ UNCHANGED <<now, cacheVars, isLoading, chartInstance, server, document, envVars>>

\* The instants at which the behaviour of the cache changes: the expiry of an
\* entry (the last instant at which it is served) and the millisecond after.
ExpiryInstants == UNION {{cache[k].expiry, cache[k].expiry + 1} : k \in DOMAIN cache}

\* Time passes: the clock moves forward to the next instant of interest.
AdvanceClock ==
    /\ \E t \in ExpiryInstants :
        /\ t > now
        /\ now' = t
    /\ UNCHANGED <<cacheVars, trackerVars, document, envVars>>

\* The arguments logMood is called with.
LogMoodArgs ==
    {<<"Happy", Num(50)>>, <<"Angry", Num(30)>>}

Next ==
    \/ \E c \in Calls, a \in LogMoodArgs : LogMood(c, a[1], a[2])
    \/ \E c \in Calls, force \in BOOLEAN : FetchMoodHistory(c, force)
    \/ \E c \in Calls : ServerRespond(c)
    \/ \E c \in Calls : Deliver(c)
    \/ \E c \in Calls, kind \in Failures : RequestFails(c, kind)
    \/ \E c \in Calls : TimerFire(c)
    \/ AdvanceClock

\* The tracker under any interleaving of its invocations.
Spec == Init /\ [][Next]_vars

\* Some request that is in flight is eventually answered or fails, some
\* response that has arrived is eventually delivered, some timer that is set
\* eventually fires: the event loop runs a continuation that is ready.
Fairness ==
    WF_vars(\E c \in Calls :
                \/ ServerRespond(c)
                \/ \E kind \in Failures : RequestFails(c, kind)
                \/ Deliver(c)
                \/ TimerFire(c))

\* The steps of the tracker's invocations.  The clock stands still: whether
\* an invocation can take its next step never depends on the time.
FairNext ==
    \/ \E c \in Calls, a \in LogMoodArgs : LogMood(c, a[1], a[2])
    \/ \E c \in Calls, force \in BOOLEAN : FetchMoodHistory(c, force)
    \/ \E c \in Calls : ServerRespond(c)
    \/ \E c \in Calls : Deliver(c)
    \/ \E c \in Calls, kind \in Failures : RequestFails(c, kind)
    \/ \E c \in Calls : TimerFire(c)

\* The tracker when no request and no timer is left hanging for ever.
FairSpec == Init /\ [][FairNext]_vars /\ Fairness

\* The moods and values logMood is tried with, one invocation at a time: the
\* labels, names Object.prototype provides, a name that is neither, the empty
\* string and a padded label; numbers inside and outside 1..5, a fraction
\* above 5 and a value that is no number.
MoodInputs == MoodLabels \cup ObjectPrototypeKeys \cup {"Angry", "", " Happy"}

ValueInputs ==
    {Num(0 - 10), Num(0), Num(10), Num(20), Num(30), Num(40), Num(50),
     Num(55), Num(60), NotANumber}

InputNext ==
    \/ \E mood \in MoodInputs, value \in ValueInputs : LogMood(1, mood, value)
    \/ ServerRespond(1)
    \/ Deliver(1)
    \/ \E kind \in Failures : RequestFails(1, kind)
    \/ TimerFire(1)
    \/ AdvanceClock

\* One logMood invocation on an idle tracker, over all inputs.
InputSpec == Init /\ [][InputNext]_vars

\* ------------------------------------------------------------------------
\* MoodCache exercised directly
\* ------------------------------------------------------------------------

\* A direct call of cache.set(key, data, ttl).
DoCacheSet(key, data, ttl) ==
    /\ cacheOps < MaxCacheOps
    /\ cacheOps' = cacheOps + 1
    /\ cache' = CacheSet(cache, key, data, ttl, now)
    /\ lastSet' = MapSet(lastSet, key, [data |-> data, at |-> now, ttl |-> ttl])
    /\ UNCHANGED <<now, ret, trackerVars, document, envVars>>

\* A direct call of cache.get(key).
DoCacheGet(key) ==
    /\ cacheOps < MaxCacheOps
    /\ cacheOps' = cacheOps + 1
    /\ ret' = [key |-> key, val |-> CacheGetValue(cache, key, now)]
    /\ cache' = CacheGetStore(cache, key, now)
    /\ UNCHANGED <<now, lastSet, trackerVars, document, envVars>>

\* A direct call of cache.clear().
DoCacheClear ==
    /\ cacheOps < MaxCacheOps
    /\ cacheOps' = cacheOps + 1
    /\ cache' = CacheClear(cache)
    /\ lastSet' = EmptyMap
    /\ UNCHANGED <<now, ret, trackerVars, document, envVars>>

CacheNext ==
    \/ \E k \in CacheKeys, d \in Payloads, ttl \in Ttls : DoCacheSet(k, d, ttl)
    \/ \E k \in CacheKeys : DoCacheGet(k)
    \/ DoCacheClear
    \/ AdvanceClock

\* MoodCache on its own, under any sequence of set, get and clear.
CacheSpec == Init /\ [][CacheNext]_vars

\* ------------------------------------------------------------------------
\* processHistoryData applied on its own
\* ------------------------------------------------------------------------

\* Longest raw history tried.
MaxHistory == 3

Hour == 60 * 60 * 1000

\* `today`: 3 January 1970, 00:30 and 23:00 UTC, so that the seven days
\* reach back into December and the local day differs between time zones.
Todays == {2 * MsPerDay + Hour \div 2, 2 * MsPerDay + 23 * Hour}

\* UTC-5, UTC and UTC+5:30.
Zones == {0 - 5 * Hour, 0, 5 * Hour + Hour \div 2}

\* The dates of the records, as distances from `today`: the same instant,
\* an hour and 23 hours earlier, 6 and 7 days earlier, a day later.
DateOffsets == {0, 0 - Hour, 0 - 23 * Hour, 0 - 6 * MsPerDay, 0 - 7 * MsPerDay,
                MsPerDay}

HistoryRecords(t) ==
    {[date |-> t + off, mood |-> MoodByValue, value |-> MoodValue(MoodByValue)] :
        off \in DateOffsets, MoodByValue \in {"Worried", "Good"}}

Histories(t) ==
    UNION {[1..n -> HistoryRecords(t)] : n \in 0..MaxHistory}

ProcInit ==
    /\ now \in Todays
    /\ tz \in Zones
    /\ input \in Histories(now)
    /\ output = <<>>
    /\ cache = EmptyMap
    /\ lastSet = EmptyMap
    /\ ret = [key |-> "", val |-> Null]
    /\ cacheOps = 0
    /\ isLoading = FALSE
    /\ chartInstance = Null
    /\ call = [c \in Calls |-> NoCall]
    /\ server = <<>>
    /\ document = [moodChart |-> TRUE, charts |-> 0]
    /\ destroyed = FALSE

\* processHistoryData(history) is applied to the input.
ProcessHistory ==
    /\ output = <<>>
    /\ output' = <<processHistoryData(input, now)>>
    /\ UNCHANGED <<now, cacheVars, trackerVars, document, tz, input, destroyed>>

\* processHistoryData is applied to the rawHistory of its earlier result.
ProcessAgain ==
    /\ Len(output) = 1
    /\ output' = Append(output, processHistoryData(output[1].rawHistory, now))
    /\ UNCHANGED <<now, cacheVars, trackerVars, document, tz, input, destroyed>>

ProcNext == ProcessHistory \/ ProcessAgain

\* processHistoryData over raw histories, days and time zones.
ProcSpec == ProcInit /\ [][ProcNext]_vars

\* ------------------------------------------------------------------------
\* The chart and its mount point
\* ------------------------------------------------------------------------

\* The series the page hands to createMoodChart directly: one point.
ChartArgs ==
    {[labels |-> <<DayLabel(0)>>, dataPoints |-> <<[val |-> 3]>>]}

\* The page-level createMoodChart(labels, dataPoints) (part_002:429-431).
DirectCreateMoodChart(labels, dataPoints) ==
    /\ createMoodChart(labels, dataPoints)
    /\ UNCHANGED <<now, cacheVars, isLoading, call, server, envVars>>

\* The element with id 'moodChart' is put on the page or taken off it.
MountChange ==
    /\ document' = [document EXCEPT !.moodChart = ~@]
    /\ UNCHANGED <<now, cacheVars, trackerVars, envVars>>

ChartInit ==
    /\ TrackerInit
    /\ document \in [moodChart : BOOLEAN, charts : {0}]
    /\ tz = 0
    /\ input = Null
    /\ output = Null

ChartNext ==
    \/ \E a \in ChartArgs : DirectCreateMoodChart(a.labels, a.dataPoints)
    \/ MountChange
    \/ \E c \in Calls : LogMood(c, "Happy", Num(50))
    \/ \E c \in Calls, force \in BOOLEAN : FetchMoodHistory(c, force)
    \/ \E c \in Calls : ServerRespond(c)
    \/ \E c \in Calls : Deliver(c)
    \/ \E c \in Calls : RequestFails(c, "network")
    \/ \E c \in Calls : TimerFire(c)

\* The tracker on a page whose mount point comes and goes, with charts
\* drawn by the page as well as by logMood and fetchMoodHistory.
ChartSpec == ChartInit /\ [][ChartNext]_vars

\* ------------------------------------------------------------------------
\* ApiClient.request: the configuration handed to fetch (part_002:28-40)
\* ------------------------------------------------------------------------

\* { ...a, ...b }: the properties of b override those of a.
Spread(a, b) ==
    [k \in (DOMAIN a) \cup (DOMAIN b) |-> IF k \in DOMAIN b THEN b[k] ELSE a[k]]

\* An object with the one property k.
Property(k, v) == [x \in {k} |-> v]

\* defaultHeaders (part_002:30-33); token is <<>> for null or holds the
\* string.
DefaultHeaders(token) ==
    Spread(Property("Content-Type", "application/json"),
           IF token # <<>> THEN Property("x-auth-token", token[1]) ELSE EmptyMap)

\* options.headers, spread: undefined spreads to nothing.
OptionsHeaders(options) ==
    IF "headers" \in DOMAIN options THEN options["headers"] ELSE EmptyMap

\* config (part_002:35-38): the merged headers first, then ...options.
RequestConfig(token, options) ==
    Spread(Property("headers", Spread(DefaultHeaders(token), OptionsHeaders(options))),
           options)

\* What localStorage.getItem('token') returns: null or the token.
Tokens == {<<>>, <<"t0k3n">>}

\* The headers a caller may pass in options.
CallerHeaders ==
    {EmptyMap,
     Property("Accept", "text/plain"),
     Property("Content-Type", "text/plain"),
     Property("x-auth-token", "other")}

\* The options a caller may pass: any of method, body and headers.
RequestOptions ==
    {Spread(Spread(m, b), h) :
        m \in {EmptyMap} \cup {Property("method", x) : x \in {"GET", "POST", "PUT"}},
        b \in {EmptyMap, Property("body", "{}")},
        h \in {EmptyMap} \cup {Property("headers", x) : x \in CallerHeaders}}

RequestInit ==
    /\ TrackerInit
    /\ document = [moodChart |-> TRUE, charts |-> 0]
    /\ tz = 0
    /\ input \in [token : Tokens, options : RequestOptions]
    /\ output = Null

\* request(endpoint, options) up to `await fetch(url, config)`: output is the
\* config fetch is called with.
IssueRequest ==
    /\ output = Null
    /\ output' = [config |-> RequestConfig(input.token, input.options)]
    /\ UNCHANGED <<now, cacheVars, trackerVars, document, tz, input, destroyed>>

\* ApiClient.request over tokens and options.
RequestSpec == RequestInit /\ [][IssueRequest]_vars

\* ------------------------------------------------------------------------
\* fetchMoodHistory while the remote store changes
\* ------------------------------------------------------------------------

\* Number of entries that reach the store from elsewhere.
MaxRemote == 1

\* The entries of the store that did not come from this tracker.
RemoteEntries == {n \in 1..Len(server) : server[n].by = 0}

\* The store accepts an entry from another session of the user (another
\* tab or device): what HISTORY_ENDPOINT returns grows.
RemoteAdd ==
    /\ Cardinality(RemoteEntries) < MaxRemote
    /\ server' = Append(server,
                        [date |-> now, mood |-> "Sad", value |-> MoodValue("Sad"),
                         by |-> 0])
    /\ UNCHANGED <<now, cacheVars, isLoading, chartInstance, call, document,
                   envVars>>

RaceNext ==
    \/ \E c \in Calls, force \in BOOLEAN : FetchMoodHistory(c, force)
    \/ \E c \in Calls : ServerRespond(c)
    \/ \E c \in Calls : Deliver(c)
    \/ \E c \in Calls, kind \in Failures : RequestFails(c, kind)
    \/ \E c \in Calls : TimerFire(c)
    \/ RemoteAdd

\* fetchMoodHistory calls in any overlap, against a store that changes
\* between their requests.
RaceSpec == Init /\ [][RaceNext]_vars

\* ------------------------------------------------------------------------
\* handleMoodLogError applied on its own
\* ------------------------------------------------------------------------

\* Longest error message tried, in words.
MaxWords == 2

\* The markers, words that contain a marker, words that differ from a
\* marker in case only, and words with no marker at all.
Words == Markers \cup {"prefetch", "14290", "Network", "Unauthorized", "500", "Failed"}

Messages == UNION {[1..n -> Words] : n \in 0..MaxWords}

ErrorInit ==
    /\ TrackerInit
    /\ document = [moodChart |-> TRUE, charts |-> 0]
    /\ tz = 0
    /\ input \in Messages
    /\ output = <<>>

\* handleMoodLogError(error, mood, value): output is what it notified.
HandleMoodLogError ==
    /\ output = <<>>
    /\ output' = handleMoodLogError(input)
    /\ UNCHANGED <<now, cacheVars, trackerVars, document, tz, input, destroyed>>

\* handleMoodLogError over error messages.
ErrorSpec == ErrorInit /\ [][HandleMoodLogError]_vars

\* ------------------------------------------------------------------------
\* MoodTracker.destroy (part_002:397-403)
\* ------------------------------------------------------------------------

\* destroy(): the chart, if there is one, is destroyed and forgotten, and the
\* cache is cleared.  Invocations in flight are not cancelled.
Destroy ==
    /\ chartInstance' = Null
    /\ document' = [document EXCEPT !.charts = DestroyPrevious(@)]
    /\ cache' = CacheClear(cache)
    /\ lastSet' = EmptyMap
    /\ destroyed' = TRUE
    /\ UNCHANGED <<now, ret, cacheOps, isLoading, call, server, tz, input, output>>

DestroyNext ==
    \/ Destroy
    \/ \E c \in Calls : LogMood(c, "Happy", Num(50))
    \/ \E c \in Calls, force \in BOOLEAN : FetchMoodHistory(c, force)
    \/ \E c \in Calls : ServerRespond(c)
    \/ \E c \in Calls : Deliver(c)
    \/ \E c \in Calls : RequestFails(c, "network")
    \/ \E c \in Calls : TimerFire(c)

\* The tracker with destroy() called at any moment.
DestroySpec == Init /\ [][DestroyNext]_vars

\* ------------------------------------------------------------------------
\* The backend middleware protect (userController.js:27-44)
\* ------------------------------------------------------------------------

\* What signs the tokens the server issues: process.env.JWT_SECRET.
JWT_SECRET == "JWT_SECRET"

UserIds == {1, 2}

\* The values of the header 'x-auth-token': the empty string, or a token
\* signed with some secret, expired or not, whose payload names a user
\* (<<id>>) or has no `user` at all (<<>>).
HeaderValues ==
    {[empty |-> TRUE, secret |-> "", expired |-> FALSE, payload |-> <<>>]} \cup
    [empty : {FALSE}, secret : {JWT_SECRET, "forged"}, expired : BOOLEAN,
     payload : {<<>>} \cup {<<id>> : id \in UserIds}]

\* req.header('x-auth-token'): <<>> (undefined) when the request has no such
\* header, <<v>> otherwise; and the user collection: who is in it, and
\* whether the database answers.
ProtectInputs ==
    [header : {<<>>} \cup {<<v>> : v \in HeaderValues},
     users  : SUBSET UserIds,
     dbUp   : BOOLEAN]

\* Truthiness of req.header('x-auth-token') and of `token`.
Truthy(header) == header # <<>> /\ ~header[1].empty

\* jwt.verify(token, JWT_SECRET) returns the payload (and does not throw).
Verifies(token) == token.secret = JWT_SECRET /\ ~token.expired

\* res.status(401).json({ msg })
Respond(out, msg) ==
    [out EXCEPT !.responses = Append(@, [status |-> 401, msg |-> msg])]

\* The catch block (userController.js:36-38).
TokenFailed(out) == Respond(out, "Not authorized, token failed")

\* `if (!token)` after the first if statement (userController.js:41-43);
\* the handler then ends.
NoTokenCheck(out) ==
    [(IF ~Truthy(out.token) THEN Respond(out, "Not authorized, no token")
      ELSE out) EXCEPT !.pc = "done"]

\* The request as it reaches protect.
NoRequest ==
    [pc        |-> "start",  \* start, lookup (awaiting findById), done
     token     |-> <<>>,     \* `let token`: <<>> is undefined
     user      |-> <<>>,     \* req.user when set: <<id>>, or <<0>> for null
     nexts     |-> 0,        \* calls of next()
     responses |-> <<>>]     \* the responses sent, in order

ProtectInit ==
    /\ TrackerInit
    /\ document = [moodChart |-> TRUE, charts |-> 0]
    /\ tz = 0
    /\ input \in ProtectInputs
    /\ output = NoRequest

\* A mutant of ProtectEnter: `token` is assigned only after jwt.verify has
\* returned.
ProtectEnterAssignsLate ==
    /\ output.pc = "start"
    /\ output' =
         IF ~Truthy(input.header) THEN NoTokenCheck(output)
         ELSE LET token == input.header[1]
              IN  IF ~Verifies(token)
                  THEN NoTokenCheck(TokenFailed(output))
                  ELSE IF token.payload = <<>>
                  THEN NoTokenCheck(
                           TokenFailed([output EXCEPT !.token = input.header]))
                  ELSE [output EXCEPT !.token = input.header, !.pc = "lookup"]
    /\ UNCHANGED <<now, cacheVars, trackerVars, document, tz, input, destroyed>>

\* protect from its entry to `await User.findById(...)` or to its end
\* (userController.js:27-34, 36-43): the token is taken from the header and
\* verified; decoded.user.id throws a TypeError when the payload has no
\* user.
ProtectEnter ==
    /\ output.pc = "start"
    /\ output' =
         IF ~Truthy(input.header) THEN NoTokenCheck(output)
         ELSE LET token == input.header[1]
                  out   == [output EXCEPT !.token = input.header]
              IN  IF ~Verifies(token) \/ token.payload = <<>>
                  THEN NoTokenCheck(TokenFailed(out))
                  ELSE [out EXCEPT !.pc = "lookup"]
    /\ UNCHANGED <<now, cacheVars, trackerVars, document, tz, input, destroyed>>

\* The lookup settles (userController.js:34-43): it rejects when the
\* database does not answer; otherwise req.user is the user, or null when
\* there is none with that id, and next() is called.  next() hands the
\* request on and returns; what later handlers throw does not come back
\* through it.
ProtectLookup ==
    /\ output.pc = "lookup"
    /\ output' =
         IF ~input.dbUp THEN NoTokenCheck(TokenFailed(output))
         ELSE LET id == output.token[1].payload[1]
              IN  NoTokenCheck(
                      [output EXCEPT !.user = IF id \in input.users
                                              THEN <<id>> ELSE <<0>>,
                                     !.nexts = @ + 1])
    /\ UNCHANGED <<now, cacheVars, trackerVars, document, tz, input, destroyed>>

ProtectNext == ProtectEnter \/ ProtectLookup

\* protect over requests and states of the user collection.
ProtectSpec == ProtectInit /\ [][ProtectNext]_vars

\* ------------------------------------------------------------------------
\* Properties
\* ------------------------------------------------------------------------

\* Invocation c is a logMood that has passed the guard and has not finished.
Submitting(c) ==
    call[c].kind = "logMood" /\ call[c].pc \in {"post", "postWait", "get", "getWait"}

\* The entries the store holds that invocation c submitted.
EntriesBy(c) == {n \in 1..Len(server) : server[n].by = c}

\* Invocation c makes its logMood call in this step.
LogMoodCalled(c) == call[c].pc = "idle" /\ call'[c].kind = "logMood"

\* C1: a logMood called with valid input while an earlier logMood is pending
\* throws the guard error at once, issues no request and changes nothing but
\* its own record (so the pending call proceeds as if it had not been made);
\* isLoading goes back to false only in a step in which the pending logMood
\* itself finishes.
C1_SecondLogMoodRejected ==
    [][ /\ \A c \in Calls :
            ( /\ LogMoodCalled(c)
              /\ validateMoodInput(call'[c].mood, call'[c].value)
              /\ isLoading )
            => /\ call'[c].pc = "done"
               /\ call'[c].result = "threw"
               /\ call'[c].error = "guard"
               /\ call'[c].reqs = 0
               /\ \A d \in Calls \ {c} : call'[d] = call[d]
               /\ UNCHANGED <<isLoading, cache, chartInstance, server, now>>
        /\ (isLoading /\ ~isLoading')
            => \E c \in Calls : Submitting(c) /\ call'[c].pc = "done"
      ]_vars

\* A logMood is pending and a later one, with valid input, was rejected by
\* the guard.
C1_Witness ==
    \E c, d \in Calls :
        /\ Submitting(c)
        /\ isLoading
        /\ call[d].kind = "logMood"
        /\ validateMoodInput(call[d].mood, call[d].value)
        /\ call[d].error = "guard"

\* The value is a number in the range 1..5.
ValueInRange(value) == value.numeric /\ 10 <= value.tenths /\ value.tenths <= 50

\* C2: a logMood whose mood is no label of the mapping, or whose value lies
\* outside 1..5, throws the validation error and has issued no request.
C2_InvalidInputRejected ==
    \A c \in Calls :
        ( /\ call[c].kind = "logMood"
          /\ (call[c].mood \notin MoodLabels \/ ~ValueInRange(call[c].value)) )
        => /\ call[c].error = "validation"
           /\ call[c].reqs = 0

\* Invocation c is a logMood with a label of the mapping and that label's
\* value, made while the tracker was idle.
MatchingCall(c) ==
    /\ call[c].kind = "logMood"
    /\ call[c].mood \in MoodLabels
    /\ call[c].value = Num(10 * MoodValue(call[c].mood))
    /\ call[c].error # "guard"

\* The store holds exactly one entry of invocation c, with c's mood and value.
OneEntryOf(c) ==
    /\ Cardinality(EntriesBy(c)) = 1
    /\ \A n \in EntriesBy(c) :
        /\ server[n].mood = call[c].mood
        /\ server[n].value = MoodValue(call[c].mood)

FirstIndex(q, e) ==
    IF \E n \in 1..Len(q) : q[n] = e
    THEN CHOOSE n \in 1..Len(q) : q[n] = e /\ \A m \in 1..(n - 1) : q[m] # e
    ELSE 0

\* C4: in a logMood, the POST has succeeded before the cache is cleared and
\* the cache is cleared before any history GET is issued; while the
\* submission has not succeeded the call has neither cleared the cache nor
\* issued a GET.
C4_SubmitClearRefetchOrder ==
    \A c \in Calls :
        call[c].kind = "logMood"
        => LET e == call[c].events
           IN  /\ \A n \in 1..Len(e) :
                    /\ e[n] = "clear"
                        => (FirstIndex(e, "post_ok") # 0 /\ FirstIndex(e, "post_ok") < n)
                    /\ e[n] = "get"
                        => (FirstIndex(e, "clear") # 0 /\ FirstIndex(e, "clear") < n)
               /\ call[c].pc \in {"post", "postWait"} => e = <<>>
               /\ (e # <<>>) => EntriesBy(c) # {}

\* A logMood has submitted, cleared the cache and issued its history GET.
C4_Witness ==
    \E c \in Calls :
        /\ call[c].kind = "logMood"
        /\ call[c].pc = "get"
        /\ call[c].events = <<"post_ok", "clear", "get">>

\* C5: at most one logMood is past the guard at any time, and isLoading is
\* true exactly while one is.
C5_AtMostOneSubmission ==
    /\ Cardinality({c \in Calls : Submitting(c)}) <= 1
    /\ isLoading <=> (\E c \in Calls : Submitting(c))

\* A logMood is waiting to retry its POST and another logMood has been
\* turned away meanwhile.
C5_Witness ==
    \E c, d \in Calls :
        /\ Submitting(c)
        /\ call[c].pc = "postWait"
        /\ call[d].kind = "logMood"
        /\ call[d].error = "guard"

\* C6: a logMood that has set isLoading ends, however its requests turn out,
\* and isLoading is false again when it has ended; and a logMood called with
\* valid input while isLoading is false is accepted.
C6_SubmittingReturnsToIdle ==
    /\ \A c \in Calls : Submitting(c) ~> (call[c].pc = "done" /\ ~isLoading)
    /\ [][ \A c \in Calls :
            ( /\ LogMoodCalled(c)
              /\ validateMoodInput(call'[c].mood, call'[c].value)
              /\ ~isLoading )
            => (isLoading' /\ call'[c].pc = "post") ]_vars

\* A logMood has failed for good, and the logMood called after it has been
\* accepted.
C6_Witness ==
    \E c, d \in Calls :
        /\ call[c].kind = "logMood"
        /\ call[c].result = "threw"
        /\ call[c].error \in Failures
        /\ Submitting(d)

\* The delays retryRequest has waited are 1 * RETRY_DELAY, 2 * RETRY_DELAY, ...
LinearBackoff(waits) == \A n \in 1..Len(waits) : waits[n] = RETRY_DELAY * n

\* C7: retryRequest waits RETRY_DELAY * k after its k-th failed attempt and
\* before the next request, issues no request after one that succeeded, and
\* returns the body of the response that succeeded: after two failures and a
\* success it has made 3 requests, with waits of 1000 and 2000 between them.
C7_LinearBackoffUntilSuccess ==
    \A c \in Calls :
        /\ LinearBackoff(call[c].waits)
        /\ call[c].pc \in {"post", "get"} => Len(call[c].waits) = call[c].reqs - 1
        /\ Waiting(c) => Len(call[c].waits) = call[c].reqs
        /\ call[c].result = "ok" /\ call[c].reqs > 0
            => Len(call[c].waits) = call[c].reqs - 1
        /\ call[c].saved # <<>>
            => \E n \in EntriesBy(c) : EntriesBy(c) = {n} /\ call[c].saved = <<server[n]>>
        /\ (call[c].kind = "fetchMoodHistory" /\ call[c].result = "ok" /\ call[c].reqs > 0)
            => \E h \in {SubSeq(server, 1, n) : n \in 0..Len(server)} :
                   call[c].out[1].rawHistory = h

\* A retryRequest has failed twice, waited 1000 then 2000, and succeeded on
\* its third request.
C7_Witness ==
    \E c \in Calls :
        /\ call[c].kind = "fetchMoodHistory"
        /\ call[c].result = "ok"
        /\ call[c].reqs = 3
        /\ call[c].waits = <<1000, 2000>>

\* C8: when every attempt fails, RETRY_ATTEMPTS requests have been made, no
\* wait follows the last failure, and what is thrown is the failure of the
\* last attempt, whatever its kind.
C8_ExhaustionPropagatesLastError ==
    /\ [](\A c \in Calls :
            call[c].error \in Failures
            => /\ call[c].pc = "done"
               /\ call[c].reqs = RETRY_ATTEMPTS
               /\ Len(call[c].waits) = RETRY_ATTEMPTS - 1)
    /\ [][ \A c \in Calls, kind \in Failures :
            RequestFails(c, kind)
            => IF call[c].reqs = RETRY_ATTEMPTS
               THEN call'[c].pc = "done" /\ call'[c].error = kind
                    /\ call'[c].waits = call[c].waits
               ELSE Waiting(c)' /\ call'[c].error = "none" ]_vars

\* A retryRequest has failed three times, the last time with a 401.
C8_Witness ==
    \E c \in Calls :
        /\ call[c].error = "http401"
        /\ call[c].reqs = 3
        /\ call[c].waits = <<1000, 2000>>

\* C9: a get of an entry whose expiry instant lies in the past returns null
\* and removes the entry; a key that is not in the Map reads as null, and it
\* comes back only through a set of that key.
C9_ExpiredGetRemoves ==
    /\ [][ \A k \in CacheKeys :
            (DoCacheGet(k) /\ k \in DOMAIN cache /\ now > cache[k].expiry)
            => (ret'.val = Null /\ k \notin DOMAIN cache') ]_vars
    /\ [][ \A k \in CacheKeys :
            (k \notin DOMAIN cache /\ k \in DOMAIN cache')
            => \E d \in Payloads, ttl \in Ttls : DoCacheSet(k, d, ttl) ]_vars
    /\ [](\A k \in CacheKeys :
            k \notin DOMAIN cache => CacheGetValue(cache, k, now) = Null)

\* The latest get found an entry out of time: null was returned and the
\* entry is gone.
C9_Witness ==
    \E k \in CacheKeys :
        /\ ret = [key |-> k, val |-> Null]
        /\ k \in DOMAIN lastSet
        /\ now > lastSet[k].at + lastSet[k].ttl
        /\ k \notin DOMAIN cache

\* What get(k) is to return: the payload of the latest set of k since the
\* last clear, unless the clock is past that set's time plus its ttl.
Expected(k) ==
    IF k \in DOMAIN lastSet /\ ~(now > lastSet[k].at + lastSet[k].ttl)
    THEN lastSet[k].data
    ELSE Null

\* C10: get(k) returns the payload of the latest set of k, if that set came
\* after the last clear and the clock is not past its time plus its ttl, and
\* null otherwise; a set replaces payload and expiry; set and get of one key
\* leave what get returns for the other keys as it was.
C10_GetReturnsLatestSet ==
    /\ [](\A k \in CacheKeys : CacheGetValue(cache, k, now) = Expected(k))
    /\ [][ \A k \in CacheKeys :
            /\ DoCacheGet(k) => ret' = [key |-> k, val |-> Expected(k)]
            /\ \A d \in Payloads, ttl \in Ttls :
                DoCacheSet(k, d, ttl)
                => cache'[k] = [data |-> d, expiry |-> now + ttl]
            /\ (DoCacheGet(k) \/ \E d \in Payloads, ttl \in Ttls : DoCacheSet(k, d, ttl))
                => \A j \in CacheKeys \ {k} :
                       CacheGetValue(cache', j, now') = CacheGetValue(cache, j, now)
         ]_vars

\* A key set anew at a later time reads as its latest payload at the very
\* instant of expiry, while the other key holds an entry too.
C10_Witness ==
    \E k, j \in CacheKeys :
        /\ k # j
        /\ k \in DOMAIN lastSet
        /\ lastSet[k].at > 0
        /\ now = lastSet[k].at + lastSet[k].ttl
        /\ ret = [key |-> k, val |-> lastSet[k].data]
        /\ j \in DOMAIN cache

\* Invocation c makes its fetchMoodHistory call in this step.
FetchCalled(c) == call[c].pc = "idle" /\ call'[c].kind = "fetchMoodHistory"

\* The cache holds a 'mood_history' entry whose time has not run out.
HistoryCached ==
    HistoryKey \in DOMAIN cache /\ ~(now > cache[HistoryKey].expiry)

\* C11: a fetchMoodHistory called without forceRefresh while an unexpired
\* 'mood_history' entry is cached renders the cached series and returns it
\* in the same step, issues no request and leaves the cache and the store as
\* they were; called with forceRefresh it issues a history request even
\* when such an entry is cached, and renders nothing before the response.
C11_CacheHitSkipsNetwork ==
    [][ \A c \in Calls :
          FetchCalled(c)
          => /\ (~call'[c].force /\ HistoryCached)
                 => /\ call'[c].pc = "done"
                    /\ call'[c].result = "ok"
                    /\ call'[c].out = <<cache[HistoryKey].data>>
                    /\ call'[c].reqs = 0
                    /\ call'[c].events = <<>>
                    /\ chartInstance' = NewChart(cache[HistoryKey].data.labels,
                                                 cache[HistoryKey].data.dataPoints)
                    /\ UNCHANGED <<cache, server>>
             /\ call'[c].force
                 => /\ call'[c].pc = "get"
                    /\ call'[c].reqs = 1
                    /\ call'[c].events = <<"get">>
                    /\ UNCHANGED <<cache, chartInstance>>
      ]_vars

\* A fetchMoodHistory without forceRefresh has returned the series an
\* earlier call had fetched and cached, without a request of its own.
C11_Witness ==
    \E c, d \in Calls :
        /\ call[c].kind = "fetchMoodHistory" /\ call[c].reqs > 0
        /\ call[d].kind = "fetchMoodHistory" /\ ~call[d].force
        /\ call[d].result = "ok" /\ call[d].reqs = 0
        /\ HistoryCached
        /\ call[d].out = <<cache[HistoryKey].data>>

\* The chart with no labels and no points.
EmptyChart == NewChart(<<>>, <<>>)

\* C12: when the last allowed attempt of a history request fails, the empty
\* chart is rendered in that step and the invocation ends by throwing the
\* error of that attempt, having returned nothing and having written
\* nothing to the cache; an invocation that ended with a transport error
\* never counts as having succeeded.
C12_FetchFailureEmptyChart ==
    /\ [][ \A c \in Calls, kind \in Failures :
             ( /\ call[c].pc = "get"
               /\ call[c].reqs = RETRY_ATTEMPTS
               /\ RequestFails(c, kind) )
             => /\ chartInstance' = EmptyChart
                /\ document'.charts = 1
                /\ call'[c].pc = "done"
                /\ call'[c].result = "threw"
                /\ call'[c].error = kind
                /\ call'[c].out = <<>>
                /\ UNCHANGED cache ]_vars
    /\ [](\A c \in Calls :
             call[c].error \in Failures
             => (call[c].result = "threw" /\ call[c].out = <<>>))

\* A direct fetchMoodHistory has used up its three attempts on a server
\* error; the chart on the page is the empty one.
C12_Witness ==
    \E c \in Calls :
        /\ call[c].kind = "fetchMoodHistory"
        /\ call[c].reqs = RETRY_ATTEMPTS
        /\ call[c].error = "http500"
        /\ chartInstance = EmptyChart

\* The invocation has emitted an error notification.
NotifiedError(c) ==
    \E n \in 1..Len(call[c].notes) : call[c].notes[n].type = "error"

\* C13: every logMood that has thrown to its caller, with the validation
\* error, the guard error or a transport error, has emitted an error
\* notification.
C13_ThrowsOnlyAfterNotifying ==
    \A c \in Calls :
        (call[c].kind = "logMood" /\ call[c].result = "threw")
        => NotifiedError(c)

\* The calendar day of slot n (1..7) when today is the day of instant t.
WindowDay(n, t) == LocalDay(t) - 7 + n

\* The positions of the records of history h whose local calendar day is d.
RecordsOfDay(h, d) == {k \in 1..Len(h) : LocalDay(h[k].date) = d}

\* The value slot n is to show: that of the earliest record of the day.
SlotValue(h, n, t) ==
    LET hits == RecordsOfDay(h, WindowDay(n, t))
    IN  IF hits = {} THEN Null
        ELSE [val |-> h[CHOOSE k \in hits : \A m \in hits : k <= m].value]

\* The records of h that lie inside the seven days, in their order.
InWindow(h, t) ==
    SelectSeq(h, LAMBDA r : \E n \in 1..7 : LocalDay(r.date) = WindowDay(n, t))

\* C14: processHistoryData returns 7 labels and 7 values for the local
\* calendar days today-6 .. today in ascending order; the value of a slot is
\* that of the first record, in input order, of that day and is null when
\* the day has no record; the records outside the seven days make no
\* difference; the empty history gives seven nulls.
C14_SevenDaySeries ==
    output # <<>>
    => LET r == output[1]
       IN  /\ DOMAIN r.labels = 1..7
           /\ DOMAIN r.dataPoints = 1..7
           /\ \A n \in 1..7 :
                /\ r.labels[n] = DayLabel(WindowDay(n, now))
                /\ r.dataPoints[n] = SlotValue(input, n, now)
           /\ r.dataPoints = processHistoryData(InWindow(input, now), now).dataPoints
           /\ (input = <<>>) => (\A n \in 1..7 : r.dataPoints[n] = Null)

\* West of Greenwich, a history with a record from outside the seven days
\* and two records of today with different values has been processed: the
\* last slot shows the value of the earlier of the two.
C14_Witness ==
    /\ output # <<>>
    /\ tz < 0
    /\ \E i, j, k \in 1..Len(input) :
        /\ i < j
        /\ RecordsOfDay(input, LocalDay(now)) = {i, j}
        /\ input[i].value # input[j].value
        /\ output[1].dataPoints[7] = [val |-> input[i].value]
        /\ LocalDay(input[k].date) < WindowDay(1, now)

C16_AtMostOneLiveChart ==
    /\ [](document.charts <= 1)
    /\ [](document.charts = 1 <=> chartInstance # Null)
    /\ [][ ~document.moodChart
           => /\ UNCHANGED chartInstance
              /\ document'.charts = document.charts
              /\ \A c \in Calls :
                    (call[c].kind = "fetchMoodHistory" /\ Deliver(c))
                    => call'[c].result = "ok"
         ]_vars

\* The mount point is gone while a chart drawn earlier is live, and a
\* fetchMoodHistory has since processed its response and returned a series
\* that is not the one on the chart.
C16_Witness ==
    /\ ~document.moodChart
    /\ document.charts = 1
    /\ \E c \in Calls :
        /\ call[c].kind = "fetchMoodHistory"
        /\ call[c].result = "ok"
        /\ call[c].reqs > 0
        /\ chartInstance # NewChart(call[c].out[1].labels, call[c].out[1].dataPoints)

\* C17: the configuration of every request carries the header
\* 'x-auth-token' with the persisted token when there is a token, and no
\* such header when there is none, whatever options the caller passed.
C17_AuthHeaderFollowsToken ==
    output # Null
    => LET headers == output.config["headers"]
       IN  IF input.token # <<>>
           THEN /\ "x-auth-token" \in DOMAIN headers
                /\ headers["x-auth-token"] = input.token[1]
           ELSE "x-auth-token" \notin DOMAIN headers

\* Invocation c is a fetchMoodHistory that fetched and succeeded.
Fetched(c) ==
    /\ call[c].kind = "fetchMoodHistory"
    /\ call[c].result = "ok"
    /\ call[c].reqs > 0

\* C18: a fetchMoodHistory that does not take the cached series issues its
\* request whatever other calls are under way; when its response is
\* processed it returns the series made from that response, and the cache
\* and the chart hold that series from that step on, whichever call
\* started first; so as long as no call has failed, cache and chart are
\* those of a call that fetched (the one processed last).
C18_LastProcessedWins ==
    /\ [][ \A c \in Calls :
            /\ (FetchCalled(c) /\ (call'[c].force \/ ~HistoryCached))
                => (call'[c].pc = "get" /\ call'[c].reqs = 1)
            /\ (call[c].kind = "fetchMoodHistory" /\ Deliver(c))
                => LET chartData == processHistoryData(call[c].resp.body, now)
                   IN  /\ call'[c].result = "ok"
                       /\ call'[c].out = <<chartData>>
                       /\ cache'[HistoryKey] =
                              [data |-> chartData, expiry |-> now + CACHE_DURATION]
                       /\ chartInstance' =
                              NewChart(chartData.labels, chartData.dataPoints)
         ]_vars
    /\ [](\A c \in Calls :
            (Fetched(c) /\ \A d \in Calls : call[d].result # "threw")
            => /\ HistoryKey \in DOMAIN cache
               /\ \E d \in Calls :
                    /\ Fetched(d)
                    /\ cache[HistoryKey].data = call[d].out[1]
                    /\ chartInstance = NewChart(call[d].out[1].labels,
                                                call[d].out[1].dataPoints))

\* Two calls without forceRefresh have both fetched; the one that started
\* first was answered before the store grew and processed last: cache and
\* chart hold its shorter history, not the other call's.
C18_Witness ==
    /\ Fetched(1) /\ ~call[1].force
    /\ Fetched(2) /\ ~call[2].force
    /\ Len(call[1].out[1].rawHistory) < Len(call[2].out[1].rawHistory)
    /\ cache[HistoryKey].data = call[1].out[1]
    /\ chartInstance = NewChart(call[1].out[1].labels, call[1].out[1].dataPoints)

\* The message contains marker k.
Marked(k) == \E n \in 1..Len(input) : WordIncludes(input[n], k)

\* C19: handleMoodLogError emits exactly one error notification, 'Failed to
\* log mood. ' followed by one category text: the network text when the
\* message contains 'network' or 'fetch'; else the log-in text when it
\* contains '401' or 'unauthorized'; else the rate text when it contains
\* '429'; else 'Please try again later.'.
C19_OneCategoryByPrecedence ==
    output # <<>>
    => /\ Len(output) = 1
       /\ output[1].type = "error"
       /\ Len(output[1].text) = 2
       /\ output[1].text[1] = "Failed to log mood. "
       /\ LET category  == output[1].text[2]
              network   == Marked("network") \/ Marked("fetch")
              unauth    == Marked("401") \/ Marked("unauthorized")
              rate      == Marked("429")
          IN  /\ network => category = "Please check your internet connection."
              /\ (~network /\ unauth) => category = "Please log in again."
              /\ (~network /\ ~unauth /\ rate)
                    => category = "Too many requests. Please wait a moment."
              /\ (~network /\ ~unauth /\ ~rate)
                    => category = "Please try again later."

\* A message with '401' before 'fetch' has been reported as a network
\* error.
C19_Witness ==
    /\ output # <<>>
    /\ input = <<"401", "prefetch">>
    /\ output[1].text[2] = "Please check your internet connection."

\* The invocation has emitted the 'Failed to log mood' notification.
NotifiedLogFailure(c) ==
    \E n \in 1..Len(call[c].notes) :
        /\ call[c].notes[n].type = "error"
        /\ call[c].notes[n].text[1] = "Failed to log mood. "

\* C20: a logMood that has thrown a transport error and has notified
\* 'Failed to log mood' has no entry in the store; a logMood whose entry
\* the store has accepted, once over, has not reported failure.
C20_FailureMeansNothingStored ==
    \A c \in Calls :
        ( /\ call[c].kind = "logMood"
          /\ call[c].result = "threw"
          /\ call[c].error \in Failures
          /\ NotifiedLogFailure(c) )
        => EntriesBy(c) = {}

\* No invocation is in flight.
AllQuiet == \A d \in Calls : call[d].pc \in {"idle", "done"}

\* The raw history holds an entry that invocation c submitted.
HoldsEntryOf(history, c) == \E n \in 1..Len(history) : history[n].by = c

\* C21: when a logMood has returned successfully and no invocation is in
\* flight, the series in the cache was made from a history that holds the
\* entry of that logMood.
C21_CacheHoldsSubmittedEntry ==
    \A c \in Calls :
        ( /\ call[c].kind = "logMood"
          /\ call[c].result = "ok"
          /\ AllQuiet
          /\ HistoryKey \in DOMAIN cache )
        => HoldsEntryOf(cache[HistoryKey].data.rawHistory, c)

\* The invocation has emitted a success notification.
NotifiedSuccess(c) ==
    \E n \in 1..Len(call[c].notes) : call[c].notes[n].type = "success"

\* Invocation c is a logMood whose POST failed on every attempt.
SubmissionFailed(c) ==
    /\ call[c].kind = "logMood"
    /\ call[c].result = "threw"
    /\ call[c].error \in Failures
    /\ call[c].saved = <<>>

GoodToken ==
    /\ Truthy(input.header)
    /\ Verifies(input.header[1])
    /\ input.header[1].payload # <<>>

\* C24: protect never does more than one of calling next() and sending a
\* response, and when it has ended it has done exactly one; next() is
\* called only for a header that is present with a token that verifies; the
\* response is 401 'no token' when the header is missing or empty and 401
\* 'token failed' when the token does not verify or the lookup fails.
C24_NextOrOne401 ==
    /\ output.nexts + Len(output.responses) <= 1
    /\ output.pc = "done" => output.nexts + Len(output.responses) = 1
    /\ output.nexts = 1 => (GoodToken /\ input.dbUp)
    /\ \A n \in 1..Len(output.responses) : output.responses[n].status = 401
    /\ output.pc = "done"
        => /\ ~Truthy(input.header)
               => output.responses =
                      <<[status |-> 401, msg |-> "Not authorized, no token"]>>
           /\ (Truthy(input.header) /\ ~(GoodToken /\ input.dbUp))
               => output.responses =
                      <<[status |-> 401, msg |-> "Not authorized, token failed"]>>
           /\ (GoodToken /\ input.dbUp) => output.nexts = 1

\* A request with an expired token has been answered, once, with 'token
\* failed'.
C24_Witness ==
    /\ output.pc = "done"
    /\ input.header # <<>>
    /\ input.header[1].expired
    /\ input.header[1].secret = JWT_SECRET
    /\ output.nexts = 0
    /\ output.responses =
           <<[status |-> 401, msg |-> "Not authorized, token failed"]>>

====
